---- MODULE Spec2Model ----
(***************************************************************************)
(* A model of cloudflare-ddns-renewal (main.go): one pass that discovers   *)
(* the public IP, resolves the domain list from the environment and, for   *)
(* each domain in turn, brings the apex and the wildcard A record at the   *)
(* DNS provider to that IP, notifying over Telegram.                       *)
(*                                                                         *)
(* Strings are sequences of one-character strings, so that splitting and   *)
(* trimming are computed as the Go code computes them.  A message is a     *)
(* sequence whose literal parts are single elements and whose %s           *)
(* arguments are spliced in character by character.                        *)
(***************************************************************************)
EXTENDS Integers, Sequences, FiniteSets, TLC

VARIABLES
    env,          \* the process environment: key -> value ("" when unset)
    pc,           \* position of the single thread of control
    exitStatus,   \* -1 while running, else the status the process ended with
    currentIP,    \* main: currentIP
    domains,      \* main: domains
    idx,          \* main: position of the range loop (1-based)
    hadError,     \* main: hadError
    err,          \* the error updateDomain returns (<<>> is nil)
    rootRec,      \* updateDomain: rootRec (<<>> is nil, else <<record>>)
    wildcardRec,  \* updateDomain: wildcardRec
    records,      \* the provider: the set of DNS records it holds
    calls,        \* history: every outbound call made so far, in order
    initialRecords \* history: the provider's records when the run began

vars == <<env, pc, exitStatus, currentIP, domains, idx, hadError, err,
          rootRec, wildcardRec, records, calls, initialRecords>>

----------------------------------------------------------------------------
(* Bounds of the inputs of the domain-list resolution                      *)

MaxLen == 3

MaxSingleLen == 2

\* the characters a setting is made of: a letter, the four separators the
\* replacer knows, the comma, and a white-space character it does not know
Chars == {"a", ",", " ", ";", "|", "\n", "\t"}

StringsUpTo(alphabet, n) == UNION {[1..k -> alphabet] : k \in 0..n}

----------------------------------------------------------------------------
(* strings                                                                 *)

\* unicode.IsSpace, on the characters that occur here
IsSpace(c) == c \in {" ", "\n", "\t", "\r"}

RECURSIVE TrimLeft(_)
TrimLeft(s) ==
    IF s # <<>> /\ IsSpace(Head(s)) THEN TrimLeft(Tail(s)) ELSE s

RECURSIVE TrimRight(_)
TrimRight(s) ==
    IF s # <<>> /\ IsSpace(s[Len(s)])
    THEN TrimRight(SubSeq(s, 1, Len(s) - 1))
    ELSE s

\* strings.TrimSpace
TrimSpace(s) == TrimRight(TrimLeft(s))

\* strings.NewReplacer("\n", ",", " ", ",", ";", ",", "|", ",").Replace
ReplaceSeparators(s) ==
    [i \in 1..Len(s) |-> IF s[i] \in {"\n", " ", ";", "|"} THEN "," ELSE s[i]]

\* strings.Split(s, ","): the pieces between the commas, empty ones included
RECURSIVE SplitFrom(_, _, _)
SplitFrom(s, i, piece) ==
    IF i > Len(s) THEN <<piece>>
    ELSE IF s[i] = "," THEN <<piece>> \o SplitFrom(s, i + 1, <<>>)
    ELSE SplitFrom(s, i + 1, Append(piece, s[i]))

Split(s) == SplitFrom(s, 1, <<>>)

\* the loop of parseDomains: trim each part and keep the non-empty ones
RECURSIVE KeepNonEmpty(_)
KeepNonEmpty(parts) ==
    IF parts = <<>> THEN <<>>
    ELSE LET d == TrimSpace(Head(parts))
         IN  (IF d # <<>> THEN <<d>> ELSE <<>>) \o KeepNonEmpty(Tail(parts))

LegacyDefault == <<"p", "l", "o", "s", "c", "a", ".", "r", "u">>

\* parseDomains, on the values of DOMAINS and DOMAIN
parseDomains(domainsVar, single) ==
    IF domainsVar = <<>>
    THEN IF single # <<>> THEN <<TrimSpace(single)>> ELSE <<LegacyDefault>>
    ELSE LET ds == KeepNonEmpty(Split(ReplaceSeparators(domainsVar)))
         IN  IF Len(ds) = 0 THEN <<LegacyDefault>> ELSE ds

----------------------------------------------------------------------------
(* names, messages and errors                                              *)

Str(lit) == <<lit>>

rootName(domain) == domain

wildcardName(domain) == <<"*", ".">> \o domain

\* the text of an error the provider or the transport reports
Cause == "provider error"

ErrZone(domain) ==
    Str("failed to get zone ID for ") \o domain \o <<": ", Cause>>

ErrListRoot(domain) ==
    Str("error listing root record for ") \o domain \o <<": ", Cause>>

ErrListWildcard(domain) ==
    Str("error listing wildcard record for ") \o domain \o <<": ", Cause>>

ErrNotFound(name) == Str("A record for ") \o name \o Str(" not found")

ErrUpdate(name) == Str("failed updating ") \o name \o <<": ", Cause>>

MsgUpdated(name, ip) == Str("IP for ") \o name \o <<" updated to ", ip>>

MsgError(domain, e) == Str("Error updating ") \o domain \o Str(": ") \o e

\* s occurs in msg as a contiguous run
Contains(msg, s) ==
    \E i \in 1..(Len(msg) - Len(s) + 1) : SubSeq(msg, i, i + Len(s) - 1) = s

----------------------------------------------------------------------------
(* the environment                                                         *)

RequiredKeys == {"CLOUDFLARE_EMAIL", "CLOUDFLARE_API_KEY",
                 "TELEGRAM_BOT_TOKEN", "TELEGRAM_CHAT_ID"}

Keys == RequiredKeys \cup {"DOMAINS", "DOMAIN"}

\* getEnv ends the process when the value is empty
getEnvFatal(e, key) == e[key] = <<>>

\* the (DOMAINS, DOMAIN) settings the runs are checked for: unset, one zone,
\* two zones, the same zone twice, three entries with an unknown zone in the
\* middle, and the single-domain forms
MainDomainSettings ==
    { << <<>>, <<>> >>,
      << <<>>, <<"b">> >>,
      << <<>>, <<" ">> >>,
      << <<"a">>, <<>> >>,
      << <<"a", " ", "b">>, <<>> >>,
      << <<"b", ",", "a">>, <<"a">> >>,
      << <<"a", ";", "a">>, <<>> >>,
      << <<"a", "|", "c", "\n", "b">>, <<>> >> }

MainEnvs ==
    { [k \in Keys |->
          IF k = "DOMAINS" THEN p[1]
          ELSE IF k = "DOMAIN" THEN p[2]
          ELSE IF k \in set THEN <<"x">> ELSE <<>>] :
        p \in MainDomainSettings, set \in SUBSET RequiredKeys }

----------------------------------------------------------------------------
(* the DNS provider                                                        *)

\* the zones the account holds
Zones == {<<"a">>, <<"b">>}

NewIP == "203.0.113.42"

OldIP == "198.51.100.10"

IPs == {NewIP, OldIP}

ARecord(name, kind, content) ==
    [ID |-> <<kind>> \o name, Type |-> "A", Name |-> name, Content |-> content,
     TTL |-> IF kind = "root" THEN 1 ELSE 120,
     Proxied |-> (kind = "root")]

\* a record of another type under the apex name, which no list call for A
\* records returns
TxtRecord(z) ==
    [ID |-> <<"txt">> \o z, Type |-> "TXT", Name |-> z, Content |-> "v=spf1",
     TTL |-> 300, Proxied |-> FALSE]

\* for each of the two names of a zone: no A record, or one with either IP
RecordChoices(z) ==
    LET opt(name, kind) ==
            {{}} \cup {{ARecord(name, kind, c)} : c \in IPs}
    IN  {r \cup w \cup {TxtRecord(z)} :
            r \in opt(rootName(z), "root"), w \in opt(wildcardName(z), "wild")}

InitialRecordSets ==
    {ra \cup rb : ra \in RecordChoices(<<"a">>), rb \in RecordChoices(<<"b">>)}

\* api.ListDNSRecords with ListDNSRecordsParams{Type, Name}: the matching
\* records (at most one per name here), as a slice
ListDNSRecords(recs, type, name) ==
    LET m == {r \in recs : r.Type = type /\ r.Name = name}
    IN  IF m = {} THEN <<>> ELSE <<CHOOSE r \in m : TRUE>>

\* api.UpdateDNSRecord, when it succeeds: the record with params.ID takes the
\* fields of params
ApplyUpdate(recs, params) ==
    {IF r.ID = params.ID
     THEN [ID |-> r.ID, Type |-> params.Type, Name |-> params.Name,
           Content |-> params.Content, TTL |-> params.TTL,
           Proxied |-> params.Proxied]
     ELSE r : r \in recs}

NoParams ==
    [ID |-> <<>>, Type |-> "", Name |-> <<>>, Content |-> "", TTL |-> 0,
     Proxied |-> FALSE]

\* one entry of the history of outbound calls
Call(op, i, name, ok, rec, params, msg) ==
    [op |-> op, i |-> i, name |-> name, ok |-> ok, rec |-> rec,
     params |-> params, msg |-> msg]

----------------------------------------------------------------------------
(* decisions of updateDomain and main                                      *)

\* rootRec = &rootRecords[0] when the slice is not empty, else nil
FirstOrNil(rs) == IF Len(rs) > 0 THEN <<rs[1]>> ELSE <<>>

\* variant: only the wildcard record is checked before the updates start
MissingRecordErrorWildcardOnly(root, wildcard, domain) ==
    IF wildcard = <<>> THEN ErrNotFound(wildcardName(domain)) ELSE <<>>

\* variant: only the apex record is checked before the updates start
MissingRecordErrorRootOnly(root, wildcard, domain) ==
    IF root = <<>> THEN ErrNotFound(rootName(domain)) ELSE <<>>

\* the two nil checks after both list calls: the error returned, or <<>>
MissingRecordError(root, wildcard, domain) ==
    IF root = <<>> THEN ErrNotFound(rootName(domain))
    ELSE IF wildcard = <<>> THEN ErrNotFound(wildcardName(domain))
    ELSE <<>>

\* variant: every record is updated, current or not
NeedsUpdateAlways(rec, ip) == TRUE

\* rec.Content == currentIP is the "already up to date" branch
NeedsUpdate(rec, ip) == rec.Content # ip

\* variant: TTL and Proxied are left at the defaults of the API
UpdateParamsDefaults(rec, name, ip) ==
    [ID |-> rec.ID, Type |-> "A", Name |-> name, Content |-> ip,
     TTL |-> 1, Proxied |-> FALSE]

\* cloudflare.UpdateDNSRecordParams built from the listed record
UpdateParams(rec, name, ip) ==
    [ID |-> rec.ID, Type |-> "A", Name |-> name, Content |-> ip,
     TTL |-> rec.TTL, Proxied |-> rec.Proxied]

\* variant: the flag follows the last domain only
NextHadErrorLastOnly(had, e) == e # <<>>

\* if err != nil { hadError = true ... }
NextHadError(had, e) == had \/ e # <<>>

\* log.Fatal when hadError, else main returns
ExitCode(had) == IF had THEN 1 ELSE 0

Running == exitStatus = -1

domain == domains[idx]

\* log.Fatalf / log.Fatal: the process ends with status 1
Fatal ==
    /\ pc' = "exit"
    /\ exitStatus' = 1

\* a nil pointer dereference: the Go runtime ends the process with status 2
Panic ==
    /\ pc' = "exit"
    /\ exitStatus' = 2

\* updateDomain returns e to main
Return(e) ==
    /\ err' = e
    /\ pc' = "returned"

----------------------------------------------------------------------------
(* the run                                                                 *)

Init ==
    /\ env \in MainEnvs
    /\ records \in InitialRecordSets
    /\ initialRecords = records
    /\ pc = "ip"
    /\ exitStatus = -1
    /\ currentIP = ""
    /\ domains = <<>>
    /\ idx = 0
    /\ hadError = FALSE
    /\ err = <<>>
    /\ rootRec = <<>>
    /\ wildcardRec = <<>>
    /\ calls = <<>>

\* main, step 1: GET the IP echo service and trim the body
DiscoverIP ==
    /\ pc = "ip"
    /\ \/ /\ Fatal
          /\ UNCHANGED currentIP
       \/ /\ \E ip \in IPs : currentIP' = ip
          /\ pc' = "creds"
          /\ UNCHANGED exitStatus
    /\ UNCHANGED <<env, domains, idx, hadError, err, rootRec, wildcardRec,
                   records, calls, initialRecords>>

\* main, step 2: the two required provider settings
LoadCredentials ==
    /\ pc = "creds"
    /\ IF getEnvFatal(env, "CLOUDFLARE_EMAIL")
          \/ getEnvFatal(env, "CLOUDFLARE_API_KEY")
       THEN Fatal
       ELSE /\ pc' = "domains"
            /\ UNCHANGED exitStatus
    /\ UNCHANGED <<env, currentIP, domains, idx, hadError, err, rootRec,
                   wildcardRec, records, calls, initialRecords>>

\* main, step 3: domains := parseDomains(), and the loop starts
ResolveDomains ==
    /\ pc = "domains"
    /\ domains' = parseDomains(env["DOMAINS"], env["DOMAIN"])
    /\ idx' = 1
    /\ pc' = "loop"
    /\ UNCHANGED <<env, exitStatus, currentIP, hadError, err, rootRec,
                   wildcardRec, records, calls, initialRecords>>

\* for _, domain := range domains: the call of updateDomain, or the end of
\* the loop and the exit decision
LoopHead ==
    /\ pc = "loop"
    /\ IF idx <= Len(domains)
       THEN /\ pc' = "zone"
            /\ calls' = Append(calls,
                   Call("updateDomain", idx, domain, TRUE, <<>>, NoParams, <<>>))
            /\ rootRec' = <<>>
            /\ wildcardRec' = <<>>
            /\ err' = <<>>
            /\ UNCHANGED exitStatus
       ELSE /\ pc' = "exit"
            /\ exitStatus' = ExitCode(hadError)
            /\ UNCHANGED <<calls, rootRec, wildcardRec, err>>
    /\ UNCHANGED <<env, currentIP, domains, idx, hadError, records,
                   initialRecords>>

\* api.ZoneIDByName(domain): fails for a name that is no zone of the
\* account, and may fail for any name
ZoneIDByName ==
    /\ pc = "zone"
    /\ \E ok \in {b \in BOOLEAN : b => domain \in Zones} :
          /\ calls' = Append(calls,
                 Call("ZoneIDByName", idx, domain, ok, <<>>, NoParams, <<>>))
          /\ IF ok
             THEN pc' = "listRoot" /\ UNCHANGED err
             ELSE Return(ErrZone(domain))
    /\ UNCHANGED <<env, exitStatus, currentIP, domains, idx, hadError,
                   rootRec, wildcardRec, records, initialRecords>>

\* the list call for the apex name
ListRoot ==
    /\ pc = "listRoot"
    /\ \E ok \in BOOLEAN :
          LET r == IF ok
                   THEN FirstOrNil(ListDNSRecords(records, "A",
                                                  rootName(domain)))
                   ELSE <<>>
          IN  /\ calls' = Append(calls,
                     Call("ListDNSRecords", idx, rootName(domain), ok, r,
                          NoParams, <<>>))
              /\ IF ok
                 THEN /\ rootRec' = r
                      /\ pc' = "listWildcard"
                      /\ UNCHANGED err
                 ELSE /\ Return(ErrListRoot(domain))
                      /\ UNCHANGED rootRec
    /\ UNCHANGED <<env, exitStatus, currentIP, domains, idx, hadError,
                   wildcardRec, records, initialRecords>>

\* the list call for the wildcard name, then the two nil checks
ListWildcard ==
    /\ pc = "listWildcard"
    /\ \E ok \in BOOLEAN :
          LET w == IF ok
                   THEN FirstOrNil(ListDNSRecords(records, "A",
                                                  wildcardName(domain)))
                   ELSE <<>>
              e == MissingRecordError(rootRec, w, domain)
          IN  /\ calls' = Append(calls,
                     Call("ListDNSRecords", idx, wildcardName(domain), ok, w,
                          NoParams, <<>>))
              /\ IF ok
                 THEN /\ wildcardRec' = w
                      /\ IF e # <<>>
                         THEN Return(e)
                         ELSE pc' = "root" /\ UNCHANGED err
                 ELSE /\ Return(ErrListWildcard(domain))
                      /\ UNCHANGED wildcardRec
    /\ UNCHANGED <<env, exitStatus, currentIP, domains, idx, hadError,
                   rootRec, records, initialRecords>>

\* "Update root record if needed" / "Update wildcard if needed": compare the
\* listed record with the current IP and, when they differ, call
\* api.UpdateDNSRecord
UpdateRecord(at, rec, name, skipTo, notifyAt) ==
    /\ pc = at
    /\ IF rec = <<>>
       THEN \* rec.Content on a nil pointer: the run panics
            /\ Panic
            /\ UNCHANGED <<calls, records, err>>
       ELSE IF ~NeedsUpdate(rec[1], currentIP)
       THEN /\ pc' = skipTo
            /\ UNCHANGED <<calls, records, err, exitStatus>>
       ELSE \E ok \in BOOLEAN :
               LET params == UpdateParams(rec[1], name, currentIP)
               IN  /\ calls' = Append(calls,
                          Call("UpdateDNSRecord", idx, name, ok, rec, params,
                               <<>>))
                   /\ UNCHANGED exitStatus
                   /\ IF ok
                      THEN /\ records' = ApplyUpdate(records, params)
                           /\ pc' = notifyAt
                           /\ UNCHANGED err
                      ELSE /\ Return(ErrUpdate(name))
                           /\ UNCHANGED records
    /\ UNCHANGED <<env, currentIP, domains, idx, hadError, rootRec,
                   wildcardRec, initialRecords>>

UpdateRoot ==
    UpdateRecord("root", rootRec, rootName(domain), "wildcard",
                 "notifyRoot")

UpdateWildcard ==
    UpdateRecord("wildcard", wildcardRec, wildcardName(domain), "finished",
                 "notifyWildcard")

\* the end of updateDomain: return nil
Finished ==
    /\ pc = "finished"
    /\ Return(<<>>)
    /\ UNCHANGED <<env, exitStatus, currentIP, domains, idx, hadError,
                   rootRec, wildcardRec, records, calls, initialRecords>>

\* sendTelegramMessage(message): the two getEnv calls, then the POST, whose
\* outcome is logged and dropped
sendTelegramMessage(at, message, continueAt, nextIdx) ==
    /\ pc = at
    /\ IF getEnvFatal(env, "TELEGRAM_BOT_TOKEN")
          \/ getEnvFatal(env, "TELEGRAM_CHAT_ID")
       THEN /\ calls' = Append(calls,
                   Call("sendTelegramMessage", idx, <<>>, FALSE, <<>>,
                        NoParams, message))
            /\ Fatal
            /\ UNCHANGED idx
       ELSE \E posted \in BOOLEAN :
               /\ calls' = Append(calls,
                      Call("sendTelegramMessage", idx, <<>>, posted, <<>>,
                           NoParams, message))
               /\ pc' = continueAt
               /\ idx' = nextIdx
               /\ UNCHANGED exitStatus
    /\ UNCHANGED <<env, currentIP, domains, hadError, err, rootRec,
                   wildcardRec, records, initialRecords>>

NotifyRoot ==
    sendTelegramMessage("notifyRoot", MsgUpdated(rootName(domain), currentIP),
                        "wildcard", idx)

NotifyWildcard ==
    sendTelegramMessage("notifyWildcard",
                        MsgUpdated(wildcardName(domain), currentIP),
                        "finished", idx)

\* main: the body of "if err := updateDomain(...); err != nil"
Returned ==
    /\ pc = "returned"
    /\ hadError' = NextHadError(hadError, err)
    /\ calls' = Append(calls,
           Call("return", idx, domain, err = <<>>, <<>>, NoParams, err))
    /\ IF err # <<>>
       THEN pc' = "notifyError" /\ UNCHANGED idx
       ELSE pc' = "loop" /\ idx' = idx + 1
    /\ UNCHANGED <<env, exitStatus, currentIP, domains, err, rootRec,
                   wildcardRec, records, initialRecords>>

NotifyError ==
    sendTelegramMessage("notifyError", MsgError(domain, err), "loop", idx + 1)

Next ==
    \/ DiscoverIP
    \/ LoadCredentials
    \/ ResolveDomains
    \/ LoopHead
    \/ ZoneIDByName
    \/ ListRoot
    \/ ListWildcard
    \/ UpdateRoot
    \/ NotifyRoot
    \/ UpdateWildcard
    \/ NotifyWildcard
    \/ Finished
    \/ Returned
    \/ NotifyError

Spec == Init /\ [][Next]_vars

----------------------------------------------------------------------------
(* domain-list resolution on its own, for every pair of settings           *)

ParseInit ==
    /\ \E d \in StringsUpTo(Chars, MaxLen),
          s \in StringsUpTo(Chars, MaxSingleLen) :
          env = [k \in Keys |->
                    IF k = "DOMAINS" THEN d
                    ELSE IF k = "DOMAIN" THEN s ELSE <<"x">>]
    /\ records = {}
    /\ initialRecords = {}
    /\ pc = "domains"
    /\ exitStatus = -1
    /\ currentIP = NewIP
    /\ domains = <<>>
    /\ idx = 0
    /\ hadError = FALSE
    /\ err = <<>>
    /\ rootRec = <<>>
    /\ wildcardRec = <<>>
    /\ calls = <<>>

ParseNext == ResolveDomains

ParseSpec == ParseInit /\ [][ParseNext]_vars

----------------------------------------------------------------------------
(* reading the history                                                     *)

Indices == 1..Len(domains)

\* the per-domain loop has started
LoopStarted == domains # <<>>

\* the run is over with domain i, by return or by the end of the process
Settled(i) == i \in Indices /\ (i < idx \/ (i = idx /\ pc = "exit"))

Positions == 1..Len(calls)

IsList(c, i, name) == c.op = "ListDNSRecords" /\ c.i = i /\ c.name = name

IsUpdate(c, i) == c.op = "UpdateDNSRecord" /\ c.i = i

IsNotify(c, i) == c.op = "sendTelegramMessage" /\ c.i = i

\* a call to the DNS provider (not a notification, which cannot fail a step)
IsProviderCall(c) ==
    c.op \in {"ZoneIDByName", "ListDNSRecords", "UpdateDNSRecord"}

IsReturn(c, i) == c.op = "return" /\ c.i = i

NamesOf(i) == {rootName(domains[i]), wildcardName(domains[i])}

\* the list call of domain i for name returned a record
Found(i, name) ==
    \E k \in Positions : IsList(calls[k], i, name) /\ calls[k].rec # <<>>

\* ... and its Content was not the current IP
Stale(i, name) ==
    \E k \in Positions :
        /\ IsList(calls[k], i, name)
        /\ calls[k].rec # <<>>
        /\ calls[k].rec[1].Content # currentIP

\* the apex list call of domain i succeeded and returned no record
ApexMissing(i) ==
    \E k \in Positions :
        /\ IsList(calls[k], i, rootName(domains[i]))
        /\ calls[k].ok
        /\ calls[k].rec = <<>>

UpdatesOf(i, name) ==
    {k \in Positions : IsUpdate(calls[k], i) /\ calls[k].name = name}

GoodUpdatesOf(i) == {k \in Positions : IsUpdate(calls[k], i) /\ calls[k].ok}

NotificationsOf(i) == {k \in Positions : IsNotify(calls[k], i)}

FailedReturnsOf(i) == {k \in Positions : IsReturn(calls[k], i) /\ ~calls[k].ok}

GoodReturnsOf(i) == {k \in Positions : IsReturn(calls[k], i) /\ calls[k].ok}

\* the positions of the calls of updateDomain, in order
RECURSIVE Reconciled(_)
Reconciled(cs) ==
    IF cs = <<>> THEN <<>>
    ELSE (IF Head(cs).op = "updateDomain" THEN <<Head(cs).i>> ELSE <<>>)
         \o Reconciled(Tail(cs))

----------------------------------------------------------------------------
(* the claims                                                              *)

\* C1: when the run ends with status 0, then for every domain of the list
\* the apex and the wildcard A record the provider listed for it hold the
\* current IP at the provider.
C1_ExitZeroAllCurrent ==
    exitStatus = 0 =>
        \A i \in Indices : \A name \in NamesOf(i) :
            \E k \in Positions :
                /\ IsList(calls[k], i, name)
                /\ calls[k].rec # <<>>
                /\ \E r \in records :
                      /\ r.ID = calls[k].rec[1].ID
                      /\ r.Name = name
                      /\ r.Content = currentIP

\* a run over two domains that ends with status 0 after updating records of
\* both
C1_Witness ==
    /\ exitStatus = 0
    /\ Len(domains) = 2
    /\ GoodUpdatesOf(1) # {}
    /\ GoodUpdatesOf(2) # {}

\* C2: a run that reached the loop ends having called updateDomain exactly
\* once for every entry of the list, in list order, whatever failed before.
C2_EveryDomainReconciled ==
    (pc = "exit" /\ LoopStarted) =>
        Reconciled(calls) = [i \in Indices |-> i]

\* C3: for a run that reached the loop, the exit status is non-zero exactly
\* when updateDomain returned an error for some domain, and the process ends
\* only after updateDomain has returned for every domain.
C3_ExitStatusIffFailure ==
    (pc = "exit" /\ LoopStarted) =>
        /\ exitStatus # 0 <=> \E i \in Indices : FailedReturnsOf(i) # {}
        /\ \A i \in Indices : \E k \in Positions : IsReturn(calls[k], i)

\* C4: no call of sendTelegramMessage ends the run, whatever the Telegram
\* settings and whatever the POST does: from a notification the run goes on.
C4_NotificationNeverEndsRun ==
    [][(pc \in {"notifyRoot", "notifyWildcard", "notifyError"}) => Running']_vars

\* C5 as stated: for a domain whose apex list call returns no record, no
\* call lists or updates the wildcard record, and the failure returned names
\* the apex.
C5_NoWildcardCallAtAll ==
    \A i \in Indices :
        ApexMissing(i) =>
            /\ \A k \in Positions :
                  calls[k].name = wildcardName(domains[i]) /\ calls[k].i = i
                      => calls[k].op \notin {"ListDNSRecords", "UpdateDNSRecord"}
            /\ \A k \in Positions :
                  IsReturn(calls[k], i) =>
                      ~calls[k].ok /\ Contains(calls[k].msg, rootName(domains[i]))

\* C5 (amended): for a domain whose apex list call returns no record, the
\* wildcard record is still listed, but no record of the domain is updated,
\* and reconciliation returns a failure whose message contains the apex name.
C5_NoUpdateWhenApexMissing ==
    \A i \in Indices :
        ApexMissing(i) =>
            /\ \A k \in Positions : ~IsUpdate(calls[k], i)
            /\ \A k \in Positions :
                  IsReturn(calls[k], i) =>
                      ~calls[k].ok /\ Contains(calls[k].msg, rootName(domains[i]))
            /\ Settled(i) \/ pc = "notifyError" =>
                  /\ \E k \in Positions :
                        IsList(calls[k], i, wildcardName(domains[i]))
                  /\ FailedReturnsOf(i) # {}

\* a domain with a zone whose apex record is missing and whose wildcard
\* record is stale: the wildcard was listed and the failure was returned
C5_Witness ==
    \E i \in Indices :
        /\ ApexMissing(i)
        /\ Stale(i, wildcardName(domains[i]))
        /\ FailedReturnsOf(i) # {}
        /\ Settled(i)

\* C6: for a domain whose zone and two records are found and whose update
\* calls do not fail, there is one update call for each record that differs
\* from the current IP and none for the others, no notification when none
\* differs, and success is returned.
C6_ExactlyTheStaleRecords ==
    \A i \in Indices :
        ( /\ Settled(i)
          /\ \A name \in NamesOf(i) : Found(i, name)
          /\ \A k \in Positions : IsUpdate(calls[k], i) => calls[k].ok )
        =>
        /\ \A name \in NamesOf(i) :
              Cardinality(UpdatesOf(i, name)) = IF Stale(i, name) THEN 1 ELSE 0
        /\ (\A name \in NamesOf(i) : ~Stale(i, name)) => NotificationsOf(i) = {}
        /\ GoodReturnsOf(i) # {}

\* C7: every update call targets a record listed in the same reconciliation
\* and carries its ID, Name, TTL and Proxied flag, Type "A" and the current
\* IP; the provider's set of records is the initial one up to the Content of
\* apex and wildcard A records.
C7_UpdatesPreserveRecords ==
    /\ \A k \in Positions :
          calls[k].op = "UpdateDNSRecord" =>
              \E j \in 1..(k - 1) :
                  /\ IsList(calls[j], calls[k].i, calls[k].name)
                  /\ calls[j].rec # <<>>
                  /\ calls[k].params =
                        [calls[j].rec[1] EXCEPT !.Content = currentIP]
                  /\ calls[k].params.Type = "A"
    /\ \A r \in records :
          \E r0 \in initialRecords :
              /\ [r EXCEPT !.Content = r0.Content] = r0
              /\ r.Content # r0.Content =>
                    /\ r.Content = currentIP
                    /\ r.Type = "A"
                    /\ \E i \in Indices : r.Name \in NamesOf(i)
    /\ Cardinality(records) = Cardinality(initialRecords)

\* a wildcard record has been updated at the provider
C7_Witness ==
    \E k \in Positions :
        /\ calls[k].op = "UpdateDNSRecord"
        /\ calls[k].ok
        /\ calls[k].name = wildcardName(domains[calls[k].i])
        /\ \E r \in records :
              r.ID = calls[k].params.ID /\ r.Content = currentIP

\* C9: per domain, the calls of sendTelegramMessage are one right after each
\* successful update call, naming the record, plus one right after a failed
\* return, and no others; updates are issued for stale records only.
C9_NotificationsMatchUpdates ==
    /\ \A i \in Indices :
          Settled(i) =>
              Cardinality(NotificationsOf(i)) =
                  Cardinality(GoodUpdatesOf(i))
                  + (IF FailedReturnsOf(i) # {} THEN 1 ELSE 0)
    /\ \A k \in Positions :
          (calls[k].op = "UpdateDNSRecord" /\ calls[k].ok) =>
              /\ calls[k].rec[1].Content # currentIP
              /\ IF k < Len(calls)
                 THEN /\ IsNotify(calls[k + 1], calls[k].i)
                      /\ calls[k + 1].msg = MsgUpdated(calls[k].name, currentIP)
                 ELSE pc \in {"notifyRoot", "notifyWildcard"}
    /\ \A k \in Positions :
          calls[k].op = "sendTelegramMessage" =>
              /\ k > 1
              /\ \/ /\ IsUpdate(calls[k - 1], calls[k].i)
                    /\ calls[k - 1].ok
                    /\ calls[k].msg = MsgUpdated(calls[k - 1].name, currentIP)
                 \/ /\ IsReturn(calls[k - 1], calls[k].i)
                    /\ ~calls[k - 1].ok
                    /\ calls[k].msg =
                          MsgError(domains[calls[k].i], calls[k - 1].msg)

\* a settled domain with two "updated" notifications, and one with a failed
\* update followed by the failure notification
C9_Witness ==
    /\ \E i \in Indices :
          Settled(i) /\ Cardinality(GoodUpdatesOf(i)) = 2
                     /\ Cardinality(NotificationsOf(i)) = 2
    /\ \E i \in Indices :
          /\ Settled(i)
          /\ \E k \in Positions : IsUpdate(calls[k], i) /\ ~calls[k].ok
          /\ Cardinality(NotificationsOf(i)) = 1 + Cardinality(GoodUpdatesOf(i))

\* C10: within a domain no update call follows a failed step or a missing
\* record: none after a failed update, none at all when the wildcard list
\* call failed or found nothing, and the apex update precedes the wildcard
\* update.
C10_NoUpdateAfterFailure ==
    \A i \in Indices :
        /\ \A k \in Positions :
              IsUpdate(calls[k], i) =>
                  \A j \in 1..(k - 1) :
                      (calls[j].i = i /\ IsProviderCall(calls[j])) =>
                          /\ calls[j].ok
                          /\ calls[j].op = "ListDNSRecords" => calls[j].rec # <<>>
        /\ (\E j \in Positions :
                /\ IsList(calls[j], i, wildcardName(domains[i]))
                /\ calls[j].rec = <<>>)
           => \A k \in Positions : ~IsUpdate(calls[k], i)
        /\ \A k \in UpdatesOf(i, rootName(domains[i])) :
              \A j \in UpdatesOf(i, wildcardName(domains[i])) : k < j

\* a stale apex whose update failed with a stale wildcard never updated, and
\* a stale apex left alone because the wildcard record is missing
C10_Witness ==
    /\ \E i \in Indices :
          /\ Settled(i)
          /\ Stale(i, wildcardName(domains[i]))
          /\ \E k \in UpdatesOf(i, rootName(domains[i])) : ~calls[k].ok
          /\ UpdatesOf(i, wildcardName(domains[i])) = {}
    /\ \E i \in Indices :
          /\ Settled(i)
          /\ Stale(i, rootName(domains[i]))
          /\ \E j \in Positions :
                /\ IsList(calls[j], i, wildcardName(domains[i]))
                /\ calls[j].ok
                /\ calls[j].rec = <<>>
          /\ UpdatesOf(i, rootName(domains[i])) = {}

\* C8: for every pair of values of DOMAINS and DOMAIN the resolved list is
\* non-empty and holds no empty entry.
C8_NoEmptyDomain ==
    pc = "loop" =>
        /\ Len(domains) > 0
        /\ \A i \in 1..Len(domains) : domains[i] # <<>>

====
